---- MODULE Spec2Model ----
(***************************************************************************)
(* The image-to-text Cloudflare Worker: one fetch handler that validates a *)
(* POST body {image, prompt}, calls the LLaVA model and relays the answer. *)
(* Two variants of the handler exist in the repository:                    *)
(*   "binding"  calls env.AI.run (src/unnamed/part_000 lines 10-130)       *)
(*   "raw"      calls the REST API with fetch (src/src/index.js)           *)
(* One behaviour of Spec is the handling of one request by one of the      *)
(* variants; the steps are the handler's statements between its awaits.    *)
(* ConcSpec handles several requests at once, interleaved at the awaits.   *)
(*                                                                         *)
(* Strings are sequences of tokens: the literals the code tests for are    *)
(* sequences over the alphabet Tokens, so that startsWith, includes, split *)
(* and atob are computed on the text and not assumed.                      *)
(***************************************************************************)
EXTENDS Integers, Sequences, FiniteSets, TLC

VARIABLES
    variant,          \* which handler variant serves the request
    request,          \* the inbound Request: method and body
    pc,               \* the handler's position
    requestData,      \* let requestData
    image,            \* const { image, ... } = requestData
    prompt,           \* const { ..., prompt } = requestData
    imageUint8Array,  \* let imageUint8Array (binding variant)
    aiResponse,       \* const aiResponse = await fetch(...) (raw variant)
    calls,            \* the downstream invocations made so far, in order
                      \* (by all invocations of the handler)
    outcome,          \* how the downstream invocation ended, once it has
    bodyReads,        \* how many times request.json() has been called
    response,         \* the Response the handler returned
    suspended         \* the other invocations of the handler, each waiting at an
                      \* await (or not yet started, or finished), with its locals

vars == <<variant, request, pc, requestData, image, prompt, imageUint8Array,
          aiResponse, calls, outcome, bodyReads, response, suspended>>

----------------------------------------------------------------------------
(* Bounds *)

\* longest image string, in tokens
MaxLen == 5

\* how many requests are in flight at once in ConcSpec
NumInvocations == 2

----------------------------------------------------------------------------
(* JavaScript values *)

Undefined == [t |-> "undefined"]
JNull == [t |-> "null"]
Num(n) == [t |-> "number", v |-> n]
Str(s) == [t |-> "string", v |-> s]
Arr(s) == [t |-> "array", v |-> s]

\* ToBoolean, as applied by ! and ||
Truthy(x) ==
    /\ x.t \notin {"undefined", "null"}
    /\ ~(x.t = "number" /\ x.v = 0)
    /\ ~(x.t = "string" /\ x.v = <<>>)

\* obj.field on an object; a field the object does not carry is undefined
Get(obj, field) == IF field \in DOMAIN obj THEN obj[field] ELSE Undefined

\* a?.field
OptGet(obj, field) ==
    IF obj.t \in {"undefined", "null"} THEN Undefined ELSE Get(obj, field)

\* a?.[0]: arrays are indexed from 0 in the code, from 1 here
OptFirst(a) ==
    IF a.t \in {"undefined", "null"} THEN Undefined
    ELSE IF a.t = "array" /\ Len(a.v) >= 1 THEN a.v[1]
    ELSE Undefined

----------------------------------------------------------------------------
(* Strings *)

Tokens == {"data:image/", ";base64", ",", "QUJD", "!"}

\* the tokens made of base64 characters only, and the bytes each decodes to
Base64Tokens == {"QUJD"}
DecodeToken(tok) == <<65, 66, 67>>

DataImagePrefix == <<"data:image/">>
Base64Marker == <<";base64", ",">>

\* String.prototype.startsWith
StartsWith(s, p) == Len(s) >= Len(p) /\ SubSeq(s, 1, Len(p)) = p

\* String.prototype.includes
Includes(s, p) ==
    \E i \in 1..(Len(s) - Len(p) + 1) : SubSeq(s, i, i + Len(p) - 1) = p

SeqsUpTo(S, n) == UNION {[1..k -> S] : k \in 0..n}

----------------------------------------------------------------------------
(* Requests *)

Methods == {"OPTIONS", "POST", "GET", "DELETE"}

ImageValues ==
    {Undefined, JNull, Num(0), Num(7), [t |-> "object"]}
    \cup {Str(s) : s \in SeqsUpTo(Tokens, MaxLen)}

PromptValues == {Undefined, Str(<<>>), Str(<<"describe">>)}

MaxTokensValues == {Undefined, Num(100)}

\* The JSON object bodies: a field that is Undefined is absent from the JSON.
RequestObjects ==
    {[t |-> "object", image |-> i, prompt |-> p, max_tokens |-> m] :
        i \in ImageValues, p \in PromptValues, m \in MaxTokensValues}

\* What the body text parses to; "invalid" is a body request.json() rejects
\* (no body at all, or text that is not JSON).
Bodies ==
    {[kind |-> "absent"], [kind |-> "invalid"]}
    \cup {[kind |-> "json", value |-> v] : v \in {JNull, Num(5), Arr(<<>>)} \cup RequestObjects}

Requests == [method : Methods, body : Bodies]

----------------------------------------------------------------------------
(* The downstream collaborator *)

ModelIdBinding == "@cf/llava-hf/llava-1.5-7b-hf"
CloudflareAiUrl == "https://api.cloudflare.com/client/v4/accounts/ACCOUNT_ID/ai/run/@cf/llava-1.5-7b-hf"

\* What a successful inference returns.
AiResults ==
    { [t |-> "object", description |-> Str(<<"a cat">>)],
      [t |-> "object", description |-> Str(<<>>), usage |-> Num(12)] }

\* What env.AI.run rejects with: "a string or object" (part_000 line 120),
\* the object with or without a message.
ThrownValues ==
    { Str(<<"Model overloaded">>), Str(<<>>),
      [t |-> "error", message |-> Str(<<"Authentication error">>)],
      [t |-> "error", message |-> Undefined] }

\* The rejection of fetch() on a network fault.
NetworkError == [t |-> "error", message |-> Str(<<"Network connection lost">>)]
\* The SyntaxError of Response.json() on a body that is not JSON.
JsonSyntaxError == [t |-> "error", message |-> Str(<<"Unexpected token in JSON">>)]
\* The TypeError of reading a property of null or of calling a non-function.
PropertyTypeError == [t |-> "error", message |-> Str(<<"Cannot read properties of null">>)]

ErrorEntries ==
    { JNull,
      [t |-> "object"],
      [t |-> "object", message |-> Str(<<>>)],
      [t |-> "object", message |-> Str(<<"Authentication error">>)],
      [t |-> "object", message |-> Str(<<"Rate limited">>)] }

\* The JSON bodies the REST API can answer with.
AiJsonBodies ==
    AiResults
    \cup {JNull, [t |-> "object"]}
    \cup {[t |-> "object", errors |-> Arr(<<>>)]}
    \cup {[t |-> "object", errors |-> Arr(<<e>>)] : e \in ErrorEntries}
    \cup {[t |-> "object", errors |-> Arr(<<e, [t |-> "object", message |-> Str(<<"second">>)]>>)] :
            e \in ErrorEntries}

AiBodies ==
    {[kind |-> "invalid"]} \cup {[kind |-> "json", value |-> v] : v \in AiJsonBodies}

AiStatuses == {200, 401, 500}

\* Response.ok
Ok(r) == 200 <= r.status /\ r.status <= 299

NoAiResponse == [status |-> 0, body |-> [kind |-> "none"]]

\* The downstream invocation has not ended (or was never made).
NoOutcome == [kind |-> "none"]

----------------------------------------------------------------------------
(* Responses *)

\* PreflightHeaders without the cache lifetime
PreflightHeaders_NoMaxAge ==
    ("Access-Control-Allow-Origin" :> "*")
    @@ ("Access-Control-Allow-Methods" :> "POST, OPTIONS")
    @@ ("Access-Control-Allow-Headers" :> "Content-Type")

PreflightHeaders ==
    ("Access-Control-Allow-Origin" :> "*")
    @@ ("Access-Control-Allow-Methods" :> "POST, OPTIONS")
    @@ ("Access-Control-Allow-Headers" :> "Content-Type")
    @@ ("Access-Control-Max-Age" :> "86400")

\* JsonHeaders with the CORS header forgotten
JsonHeaders_NoCors == ("Content-Type" :> "application/json")

JsonHeaders ==
    ("Content-Type" :> "application/json") @@ ("Access-Control-Allow-Origin" :> "*")

\* new Response(text, {status}) with no headers given: the runtime adds the
\* content type of a string body and nothing else.
PlainTextHeaders == ("Content-Type" :> "text/plain;charset=UTF-8")

\* JSON.stringify of an object: a property whose value is undefined is left out.
\* The text is represented by the JSON value it denotes.
Stringify(v) ==
    IF v.t = "object"
    THEN [f \in {g \in DOMAIN v : g = "t" \/ v[g] # Undefined} |-> v[f]]
    ELSE v

NoResponse == [status |-> 0, headers |-> <<>>, body |-> [kind |-> "none"]]

PreflightResponse ==
    [status |-> 200, headers |-> PreflightHeaders, body |-> [kind |-> "empty"]]

MethodNotAllowedResponse ==
    [status |-> 405, headers |-> PlainTextHeaders,
     body |-> [kind |-> "text", text |-> "Method Not Allowed"]]

JsonResponse(value, status) ==
    [status |-> status, headers |-> JsonHeaders,
     body |-> [kind |-> "json", value |-> Stringify(value)]]

MessageObject(m) == [t |-> "object", message |-> Str(m)]

InvalidJsonMessage == <<"Invalid JSON in request body">>
MissingFieldsMessage == <<"Missing image (base64 data URI) or prompt in request body">>
InvalidFormatMessage ==
    <<"Invalid image format", ". Must be a base64 Data URI (e.g., data:image/jpeg;base64,...)">>
DecodeFailedMessage == <<"Failed to decode base64 image data.">>
AiModelErrorPrefix == <<"AI model error: ">>
InternalErrorMessage == <<"Internal server error while processing request">>

InvalidJsonResponse == JsonResponse(MessageObject(InvalidJsonMessage), 400)
MissingFieldsResponse == JsonResponse(MessageObject(MissingFieldsMessage), 400)
InvalidFormatResponse == JsonResponse(MessageObject(InvalidFormatMessage), 400)
DecodeFailedResponse == JsonResponse(MessageObject(DecodeFailedMessage), 400)

\* the catch block of the raw variant
InternalErrorResponse(error) ==
    JsonResponse([t |-> "object", message |-> Str(InternalErrorMessage),
                  error |-> error.message], 500)

----------------------------------------------------------------------------
(* Decoding the data URI (binding variant) *)

\* String.prototype.split on a one-token separator: the pieces between the
\* separators, in order.
RECURSIVE Split(_, _)
Split(s, sep) ==
    IF \A i \in 1..Len(s) : s[i] # sep
    THEN <<s>>
    ELSE LET i == CHOOSE k \in 1..Len(s) :
                      s[k] = sep /\ \A j \in 1..(k - 1) : s[j] # sep
         IN  <<SubSeq(s, 1, i - 1)>> \o Split(SubSeq(s, i + 1, Len(s)), sep)

\* image.split(',')[1]
Base64Data(img) ==
    LET parts == Split(img, ",")
    IN  IF Len(parts) >= 2 THEN Str(parts[2]) ELSE Undefined

\* atob throws on text that is not base64
AtobThrows(b) == b.t # "string" \/ \E i \in 1..Len(b.v) : b.v[i] \notin Base64Tokens

\* Uint8Array.from(atob(b), charCodeAt): the decoded bytes
RECURSIVE Atob(_)
Atob(s) == IF s = <<>> THEN <<>> ELSE DecodeToken(Head(s)) \o Atob(Tail(s))

----------------------------------------------------------------------------
(* The payloads sent downstream *)

DefaultMaxTokens == 512

\* const aiInput = {messages: [...], max_tokens: 512}
AiInput ==
    [t |-> "object",
     messages |-> Arr(<<[role |-> "user", content |-> prompt,
                         image |-> Arr(imageUint8Array)]>>),
     max_tokens |-> Num(DefaultMaxTokens)]

\* const aiPayload = {messages: [...]}
AiPayload ==
    [t |-> "object",
     messages |-> Arr(<<[role |-> "user", content |-> prompt, image |-> image]>>)]

BindingCall == [via |-> "env.AI.run", target |-> ModelIdBinding, input |-> AiInput]

RawCall == [via |-> "fetch", target |-> CloudflareAiUrl, input |-> Stringify(AiPayload)]

\* errorData.errors?.[0]?.message || 'Unknown error from Cloudflare AI'
ErrorDetails(errorData) ==
    LET m == OptGet(OptFirst(Get(errorData, "errors")), "message")
    IN  IF Truthy(m) THEN m.v ELSE <<"Unknown error from Cloudflare AI">>

\* typeof error === 'string' ? error : (error.message || 'Unknown error ...')
BindingErrorMessage(error) ==
    IF error.t = "string" THEN error.v
    ELSE IF Truthy(error.message) THEN error.message.v
    ELSE <<"Unknown error from Cloudflare AI binding">>

\* AiModelErrorResponse relaying the details without the prefix
AiModelErrorResponse_NoPrefix(details, status) ==
    JsonResponse(MessageObject(details), status)

AiModelErrorResponse(details, status) ==
    JsonResponse(MessageObject(AiModelErrorPrefix \o details), status)

----------------------------------------------------------------------------
(* The handler *)

Variants == {"binding", "raw"}

Init ==
    /\ variant \in Variants
    /\ request \in Requests
    /\ pc = "start"
    /\ requestData = Undefined
    /\ image = Undefined
    /\ prompt = Undefined
    /\ imageUint8Array = <<>>
    /\ aiResponse = NoAiResponse
    /\ calls = <<>>
    /\ outcome = NoOutcome
    /\ bodyReads = 0
    /\ response = NoResponse
    /\ suspended = <<>>

\* return new Response(...)
Return(r) ==
    /\ response' = r
    /\ pc' = "done"

\* an exception no try block of the handler catches
Throw ==
    /\ pc' = "threw"
    /\ UNCHANGED response

\* if (request.method === 'OPTIONS') return new Response(null, {headers})
Preflight ==
    /\ pc = "start"
    /\ request.method = "OPTIONS"
    /\ Return(PreflightResponse)
    /\ UNCHANGED <<suspended, variant, request, requestData, image, prompt, imageUint8Array,
                   aiResponse, calls, outcome, bodyReads>>

\* MethodGate without its return: the handler goes on to read the body
MethodGate_FallThrough ==
    /\ pc = "start"
    /\ request.method # "OPTIONS"
    /\ request.method # "POST"
    /\ bodyReads' = bodyReads + 1
    /\ pc' = "readBody"
    /\ UNCHANGED <<suspended, variant, request, requestData, image, prompt, imageUint8Array,
                   aiResponse, calls, outcome, response>>

\* if (request.method !== 'POST') return new Response('Method Not Allowed', {status: 405})
MethodGate ==
    /\ pc = "start"
    /\ request.method # "OPTIONS"
    /\ request.method # "POST"
    /\ Return(MethodNotAllowedResponse)
    /\ UNCHANGED <<suspended, variant, request, requestData, image, prompt, imageUint8Array,
                   aiResponse, calls, outcome, bodyReads>>

\* requestData = await request.json(): the call, up to the suspension
ReadBody ==
    /\ pc = "start"
    /\ request.method # "OPTIONS"
    /\ request.method = "POST"
    /\ bodyReads' = bodyReads + 1
    /\ pc' = "readBody"
    /\ UNCHANGED <<suspended, variant, request, requestData, image, prompt, imageUint8Array,
                   aiResponse, calls, outcome, response>>

\* BodyRejected with an empty catch block: requestData stays undefined
BodyRejected_Swallowed ==
    /\ pc = "readBody"
    /\ request.body.kind # "json"
    /\ pc' = "destructure"
    /\ UNCHANGED <<suspended, variant, request, requestData, image, prompt, imageUint8Array,
                   aiResponse, calls, outcome, bodyReads, response>>

\* request.json() rejects: catch (e) { return 400 'Invalid JSON in request body' }
BodyRejected ==
    /\ pc = "readBody"
    /\ request.body.kind # "json"
    /\ Return(InvalidJsonResponse)
    /\ UNCHANGED <<suspended, variant, request, requestData, image, prompt, imageUint8Array,
                   aiResponse, calls, outcome, bodyReads>>

\* request.json() resolves
BodyParsed ==
    /\ pc = "readBody"
    /\ request.body.kind = "json"
    /\ requestData' = request.body.value
    /\ pc' = "destructure"
    /\ UNCHANGED <<suspended, variant, request, image, prompt, imageUint8Array,
                   aiResponse, calls, outcome, bodyReads, response>>

\* const { image, prompt } = requestData, which throws a TypeError on null
Destructure ==
    /\ pc = "destructure"
    /\ IF requestData.t \in {"null", "undefined"}
       THEN /\ Throw
            /\ UNCHANGED <<image, prompt>>
       ELSE /\ image' = Get(requestData, "image")
            /\ prompt' = Get(requestData, "prompt")
            /\ pc' = "checkFields"
            /\ UNCHANGED response
    /\ UNCHANGED <<suspended, variant, request, requestData, imageUint8Array,
                   aiResponse, calls, outcome, bodyReads>>

\* FieldsMissing with && for ||
FieldsMissing_And == ~Truthy(image) /\ ~Truthy(prompt)

\* if (!image || !prompt)
FieldsMissing == ~Truthy(image) \/ ~Truthy(prompt)

CheckFields ==
    /\ pc = "checkFields"
    /\ IF FieldsMissing
       THEN Return(MissingFieldsResponse)
       ELSE /\ pc' = "checkFormat"
            /\ UNCHANGED response
    /\ UNCHANGED <<suspended, variant, request, requestData, image, prompt, imageUint8Array,
                   aiResponse, calls, outcome, bodyReads>>

\* FormatInvalid with && for ||
FormatInvalid_And(img) ==
    ~StartsWith(img, DataImagePrefix) /\ ~Includes(img, Base64Marker)

\* if (!image.startsWith('data:image/') || !image.includes(';base64,'))
FormatInvalid(img) ==
    ~StartsWith(img, DataImagePrefix) \/ ~Includes(img, Base64Marker)

\* The format check; image.startsWith is not a function when image is no string.
CheckFormat ==
    /\ pc = "checkFormat"
    /\ IF image.t # "string"
       THEN Throw
       ELSE IF FormatInvalid(image.v)
       THEN Return(InvalidFormatResponse)
       ELSE /\ pc' = IF variant = "binding" THEN "decode" ELSE "invoke"
            /\ UNCHANGED response
    /\ UNCHANGED <<suspended, variant, request, requestData, image, prompt, imageUint8Array,
                   aiResponse, calls, outcome, bodyReads>>

\* try { imageUint8Array = Uint8Array.from(atob(base64Data), ...) } catch (e) { return 400 }
Decode ==
    /\ pc = "decode"
    /\ variant = "binding"
    /\ LET base64Data == Base64Data(image.v)
       IN  IF AtobThrows(base64Data)
           THEN /\ Return(DecodeFailedResponse)
                /\ UNCHANGED imageUint8Array
           ELSE /\ imageUint8Array' = Atob(base64Data.v)
                /\ pc' = "invoke"
                /\ UNCHANGED response
    /\ UNCHANGED <<suspended, variant, request, requestData, image, prompt,
                   aiResponse, calls, outcome, bodyReads>>

\* await env.AI.run(modelId, aiInput): the call, up to the suspension
InvokeBinding ==
    /\ pc = "invoke"
    /\ variant = "binding"
    /\ calls' = Append(calls, BindingCall)
    /\ pc' = "awaitRun"
    /\ UNCHANGED <<suspended, variant, request, requestData, image, prompt, imageUint8Array,
                   aiResponse, outcome, bodyReads, response>>

\* RunResolves answering {description} alone, built from the result's field
RunResolves_DescriptionOnly ==
    /\ pc = "awaitRun"
    /\ \E aiResult \in AiResults :
          /\ outcome' = [kind |-> "returned", value |-> aiResult]
          /\ Return(JsonResponse([t |-> "object", description |-> aiResult.description], 200))
    /\ UNCHANGED <<suspended, variant, request, requestData, image, prompt, imageUint8Array,
                   aiResponse, calls, bodyReads>>

\* env.AI.run resolves: return 200 with JSON.stringify(aiResult)
RunResolves ==
    /\ pc = "awaitRun"
    /\ \E aiResult \in AiResults :
          /\ outcome' = [kind |-> "returned", value |-> aiResult]
          /\ Return(JsonResponse(aiResult, 200))
    /\ UNCHANGED <<suspended, variant, request, requestData, image, prompt, imageUint8Array,
                   aiResponse, calls, bodyReads>>

\* RunRejects calling the model once more after a first rejection
RunRejects_Retry ==
    /\ pc = "awaitRun"
    /\ \E error \in ThrownValues :
          /\ outcome' = [kind |-> "threw", error |-> error]
          /\ IF Len(calls) < 2
             THEN /\ pc' = "invoke"
                  /\ UNCHANGED response
             ELSE Return(AiModelErrorResponse(BindingErrorMessage(error), 500))
    /\ UNCHANGED <<suspended, variant, request, requestData, image, prompt, imageUint8Array,
                   aiResponse, calls, bodyReads>>

\* env.AI.run rejects: the catch block returns 500 "AI model error: ..."
RunRejects ==
    /\ pc = "awaitRun"
    /\ \E error \in ThrownValues :
          /\ outcome' = [kind |-> "threw", error |-> error]
          /\ Return(AiModelErrorResponse(BindingErrorMessage(error), 500))
    /\ UNCHANGED <<suspended, variant, request, requestData, image, prompt, imageUint8Array,
                   aiResponse, calls, bodyReads>>

\* await fetch(CLOUDFLARE_AI_URL, {...}): the call, up to the suspension
InvokeRaw ==
    /\ pc = "invoke"
    /\ variant = "raw"
    /\ calls' = Append(calls, RawCall)
    /\ pc' = "awaitFetch"
    /\ UNCHANGED <<suspended, variant, request, requestData, image, prompt, imageUint8Array,
                   aiResponse, outcome, bodyReads, response>>

\* fetch rejects (network fault): the catch block returns 500
FetchRejects ==
    /\ pc = "awaitFetch"
    /\ outcome' = [kind |-> "threw", error |-> NetworkError]
    /\ Return(InternalErrorResponse(NetworkError))
    /\ UNCHANGED <<suspended, variant, request, requestData, image, prompt, imageUint8Array,
                   aiResponse, calls, bodyReads>>

\* fetch resolves; if (!aiResponse.ok) the error body is read, else the result
FetchResolves ==
    /\ pc = "awaitFetch"
    /\ \E st \in AiStatuses, b \in AiBodies :
          /\ aiResponse' = [status |-> st, body |-> b]
          /\ outcome' = [kind |-> "responded", status |-> st, body |-> b]
          /\ pc' = IF Ok([status |-> st]) THEN "awaitResultJson" ELSE "awaitErrorJson"
    /\ UNCHANGED <<suspended, variant, request, requestData, image, prompt, imageUint8Array,
                   calls, bodyReads, response>>

\* const errorData = await aiResponse.json(); return the error with the API's status.
\* A body that is not JSON, and errorData.errors on null, throw into the catch block.
ErrorJsonSettles ==
    /\ pc = "awaitErrorJson"
    /\ IF aiResponse.body.kind # "json"
       THEN Return(InternalErrorResponse(JsonSyntaxError))
       ELSE LET errorData == aiResponse.body.value
            IN  IF errorData.t \in {"null", "undefined"}
                THEN Return(InternalErrorResponse(PropertyTypeError))
                ELSE Return(AiModelErrorResponse(ErrorDetails(errorData), aiResponse.status))
    /\ UNCHANGED <<suspended, variant, request, requestData, image, prompt, imageUint8Array,
                   aiResponse, calls, outcome, bodyReads>>

\* const aiResult = await aiResponse.json(); return 200 with JSON.stringify(aiResult)
ResultJsonSettles ==
    /\ pc = "awaitResultJson"
    /\ IF aiResponse.body.kind # "json"
       THEN Return(InternalErrorResponse(JsonSyntaxError))
       ELSE Return(JsonResponse(aiResponse.body.value, 200))
    /\ UNCHANGED <<suspended, variant, request, requestData, image, prompt, imageUint8Array,
                   aiResponse, calls, outcome, bodyReads>>

Next ==
    \/ Preflight
    \/ MethodGate
    \/ ReadBody
    \/ BodyRejected
    \/ BodyParsed
    \/ Destructure
    \/ CheckFields
    \/ CheckFormat
    \/ Decode
    \/ InvokeBinding
    \/ RunResolves
    \/ RunRejects
    \/ InvokeRaw
    \/ FetchRejects
    \/ FetchResolves
    \/ ErrorJsonSettles
    \/ ResultJsonSettles

Spec == Init /\ [][Next]_vars

----------------------------------------------------------------------------
(* Concurrent invocations *)

(* The runtime calls fetch once per request and runs one invocation at a time,  *)
(* up to its next await; there another invocation may start or resume. Every   *)
(* name the handler assigns is a let or const of the call, so an invocation     *)
(* that is not running keeps all of them in its own frame. The variables above  *)
(* are the locals of the running invocation.                                    *)

Frame(req, p, rd, img, pr, bytes, air, out, reads, resp) ==
    [request |-> req, pc |-> p, requestData |-> rd, image |-> img, prompt |-> pr,
     imageUint8Array |-> bytes, aiResponse |-> air, outcome |-> out,
     bodyReads |-> reads, response |-> resp]

\* the locals of the running invocation
CurrentFrame ==
    Frame(request, pc, requestData, image, prompt, imageUint8Array, aiResponse,
          outcome, bodyReads, response)

\* an invocation that has not run yet
InitialFrame(req) ==
    Frame(req, "start", Undefined, Undefined, Undefined, <<>>, NoAiResponse,
          NoOutcome, 0, NoResponse)

\* the positions at which an invocation waits on a promise
AwaitPoints == {"readBody", "awaitRun", "awaitFetch", "awaitErrorJson", "awaitResultJson"}

\* Switch with aiResponse kept outside the frame, as a name of the module scope
\* shared by all invocations
Switch_SharedAiResponse ==
    /\ pc \in AwaitPoints \cup {"done", "threw"}
    /\ \E k \in 1..Len(suspended) :
          /\ suspended[k].pc \in AwaitPoints \cup {"start"}
          /\ suspended' = [suspended EXCEPT ![k] = CurrentFrame]
          /\ request' = suspended[k].request
          /\ pc' = suspended[k].pc
          /\ requestData' = suspended[k].requestData
          /\ image' = suspended[k].image
          /\ prompt' = suspended[k].prompt
          /\ imageUint8Array' = suspended[k].imageUint8Array
          /\ outcome' = suspended[k].outcome
          /\ bodyReads' = suspended[k].bodyReads
          /\ response' = suspended[k].response
    /\ UNCHANGED <<variant, calls, aiResponse>>

\* The running invocation waits at an await, or has ended, and the runtime starts
\* or resumes another one.
Switch ==
    /\ pc \in AwaitPoints \cup {"done", "threw"}
    /\ \E k \in 1..Len(suspended) :
          /\ suspended[k].pc \in AwaitPoints \cup {"start"}
          /\ suspended' = [suspended EXCEPT ![k] = CurrentFrame]
          /\ request' = suspended[k].request
          /\ pc' = suspended[k].pc
          /\ requestData' = suspended[k].requestData
          /\ image' = suspended[k].image
          /\ prompt' = suspended[k].prompt
          /\ imageUint8Array' = suspended[k].imageUint8Array
          /\ aiResponse' = suspended[k].aiResponse
          /\ outcome' = suspended[k].outcome
          /\ bodyReads' = suspended[k].bodyReads
          /\ response' = suspended[k].response
    /\ UNCHANGED <<variant, calls>>

\* The requests in flight together: one of each path through the handler.
ValidRequestObject ==
    [t |-> "object", image |-> Str(<<"data:image/", ";base64", ",", "QUJD">>),
     prompt |-> Str(<<"describe">>), max_tokens |-> Undefined]

ConcRequests ==
    { [method |-> "OPTIONS", body |-> [kind |-> "absent"]],
      [method |-> "GET", body |-> [kind |-> "absent"]],
      [method |-> "POST", body |-> [kind |-> "invalid"]],
      [method |-> "POST", body |-> [kind |-> "json", value |-> JNull]],
      [method |-> "POST", body |-> [kind |-> "json", value |->
          [ValidRequestObject EXCEPT !.prompt = Undefined]]],
      [method |-> "POST", body |-> [kind |-> "json", value |->
          [ValidRequestObject EXCEPT !.image = Str(<<"!">>)]]],
      [method |-> "POST", body |-> [kind |-> "json", value |-> ValidRequestObject]] }

ConcInit ==
    /\ variant \in Variants
    /\ request \in ConcRequests
    /\ pc = "start"
    /\ requestData = Undefined
    /\ image = Undefined
    /\ prompt = Undefined
    /\ imageUint8Array = <<>>
    /\ aiResponse = NoAiResponse
    /\ calls = <<>>
    /\ outcome = NoOutcome
    /\ bodyReads = 0
    /\ response = NoResponse
    /\ suspended \in [1..(NumInvocations - 1) -> {InitialFrame(r) : r \in ConcRequests}]

ConcNext ==
    \/ Next
    \/ Switch

ConcSpec == ConcInit /\ [][ConcNext]_vars

----------------------------------------------------------------------------
(* Properties *)

Responded == pc = "done"

HasHeader(r, name, value) == name \in DOMAIN r.headers /\ r.headers[name] = value

IsJsonBody(r) == r.body.kind = "json"

\* the message of a JSON body {message: ...}, as a token sequence
MessageOf(r) == Get(r.body.value, "message").v

HasMessage(r, m) ==
    /\ IsJsonBody(r)
    /\ Get(r.body.value, "message") = Str(m)

MessageStartsWith(r, p) ==
    /\ IsJsonBody(r)
    /\ Get(r.body.value, "message").t = "string"
    /\ StartsWith(MessageOf(r), p)

IsPost == request.method = "POST"

\* the body parsed to a value whose properties can be read
BodyReadable == request.body.kind = "json" /\ request.body.value.t \notin {"null", "undefined"}

SentImage == Get(request.body.value, "image")
SentPrompt == Get(request.body.value, "prompt")
SentMaxTokens == Get(request.body.value, "max_tokens")

DownstreamFailed ==
    \/ outcome.kind = "threw"
    \/ outcome.kind = "responded" /\ ~Ok(outcome)

\* C1: every response on an error path (the 405, every 400, every downstream or
\* internal failure response) carries Access-Control-Allow-Origin: *.
C1_ErrorResponsesCarryCors ==
    (Responded /\ response.status >= 400)
        => HasHeader(response, "Access-Control-Allow-Origin", "*")

\* C2 as stated: every response other than the plain-text 405, the OPTIONS
\* preflight included, carries Access-Control-Allow-Origin: * and
\* Content-Type: application/json.
C2_AllButPlain405CarryBoth ==
    (Responded /\ response # MethodNotAllowedResponse)
        => /\ HasHeader(response, "Access-Control-Allow-Origin", "*")
           /\ HasHeader(response, "Content-Type", "application/json")

\* C2 amended: every response other than the plain-text 405 carries
\* Access-Control-Allow-Origin: *; every response other than the 405 and the
\* empty OPTIONS preflight also carries Content-Type: application/json, and the
\* preflight response carries no Content-Type at all.
C2_CorsOnAllJsonTypeOnBodies ==
    (Responded /\ response # MethodNotAllowedResponse)
        => /\ HasHeader(response, "Access-Control-Allow-Origin", "*")
           /\ request.method # "OPTIONS"
                => HasHeader(response, "Content-Type", "application/json")
           /\ request.method = "OPTIONS"
                => "Content-Type" \notin DOMAIN response.headers

C2_Witness ==
    /\ Responded
    /\ request.method = "POST"
    /\ response.status = 200
    /\ HasHeader(response, "Content-Type", "application/json")

\* C3: the token limit of every downstream call equals the request's max_tokens
\* when the request supplies one and 512 when it does not.
C3_MaxTokensForwarded ==
    \A i \in 1..Len(calls) :
        Get(calls[i].input, "max_tokens") =
            IF SentMaxTokens # Undefined THEN SentMaxTokens ELSE Num(512)


C5_Details(body) ==
    IF /\ body.kind = "json"
       /\ Get(body.value, "errors").t = "array"
       /\ Len(Get(body.value, "errors").v) >= 1
       /\ Get(body.value, "errors").v[1].t = "object"
       /\ Get(Get(body.value, "errors").v[1], "message").t = "string"
       /\ Get(Get(body.value, "errors").v[1], "message").v # <<>>
    THEN Get(Get(body.value, "errors").v[1], "message").v
    ELSE <<"Unknown error from Cloudflare AI">>

\* C5: in the raw-HTTPS variant a non-success downstream response is answered with
\* the same status and the message "AI model error: <details>", the generic
\* details included when the error body carries no usable error list at all.
C5_RawErrorRelayed ==
    (Responded /\ variant = "raw" /\ outcome.kind = "responded" /\ ~Ok(outcome))
        => /\ response.status = outcome.status
           /\ HasMessage(response, AiModelErrorPrefix \o C5_Details(outcome.body))

\* C6: a request whose method is neither OPTIONS nor POST is answered 405 with the
\* plain text "Method Not Allowed", whatever its body; its body is never read and
\* the downstream is never invoked.
C6_OtherMethodsGet405 ==
    request.method \notin {"OPTIONS", "POST"}
        => /\ bodyReads = 0
           /\ calls = <<>>
           /\ pc \in {"start", "done"}
           /\ pc = "start" => ENABLED MethodGate
           /\ Responded
                => /\ response.status = 405
                   /\ response.body = [kind |-> "text", text |-> "Method Not Allowed"]

C6_Witness ==
    /\ Responded
    /\ request.method = "DELETE"
    /\ request.body.kind = "json"
    /\ BodyReadable
    /\ Truthy(SentImage) /\ Truthy(SentPrompt)
    /\ response.status = 405

\* C7: every OPTIONS request, whatever its body, gets an empty-body response with
\* the four preflight headers, and neither reads the body nor calls downstream.
C7_PreflightAlwaysAnswered ==
    request.method = "OPTIONS"
        => /\ bodyReads = 0
           /\ calls = <<>>
           /\ pc \in {"start", "done"}
           /\ pc = "start" => ENABLED Preflight
           /\ Responded
                => /\ response.body.kind = "empty"
                   /\ HasHeader(response, "Access-Control-Allow-Origin", "*")
                   /\ HasHeader(response, "Access-Control-Allow-Methods", "POST, OPTIONS")
                   /\ HasHeader(response, "Access-Control-Allow-Headers", "Content-Type")
                   /\ HasHeader(response, "Access-Control-Max-Age", "86400")

C7_Witness ==
    /\ Responded
    /\ request.method = "OPTIONS"
    /\ BodyReadable
    /\ SentImage = Str(<<"data:image/", ";base64", ",", "QUJD">>)
    /\ Truthy(SentPrompt)
    /\ response.body.kind = "empty"

\* C8: a POST whose body is not JSON is answered 400 {message: "Invalid JSON in
\* request body"} with the CORS origin header, and the downstream is not invoked.
C8_InvalidJsonIs400 ==
    (IsPost /\ request.body.kind # "json")
        => /\ calls = <<>>
           /\ pc \in {"start", "readBody", "done"}
           /\ ~Responded => ENABLED Next
           /\ Responded
                => /\ response.status = 400
                   /\ response.body.value = [t |-> "object", message |-> Str(InvalidJsonMessage)]
                   /\ HasHeader(response, "Access-Control-Allow-Origin", "*")

C8_Witness ==
    /\ Responded
    /\ IsPost
    /\ request.body.kind = "invalid"
    /\ bodyReads = 1
    /\ response.status = 400

C10_WellFormed(img) ==
    /\ Len(img) >= 1
    /\ img[1] = "data:image/"
    /\ \E i \in 1..(Len(img) - 1) : img[i] = ";base64" /\ img[i + 1] = ","

\* C10: with image a non-empty string and prompt non-empty, the format check is
\* passed exactly when image begins with "data:image/" and contains ";base64,";
\* every other image is answered 400 with a message starting "Invalid image
\* format" and the downstream is not invoked.
C10_FormatCheckExact ==
    (IsPost /\ BodyReadable /\ SentImage.t = "string" /\ Truthy(SentImage) /\ Truthy(SentPrompt))
        => /\ ~C10_WellFormed(SentImage.v)
                => /\ calls = <<>>
                   /\ pc \in {"start", "readBody", "destructure", "checkFields",
                              "checkFormat", "done"}
                   /\ ~Responded => ENABLED Next
                   /\ Responded
                        => /\ response.status = 400
                           /\ MessageStartsWith(response, <<"Invalid image format">>)
           /\ C10_WellFormed(SentImage.v)
                => /\ ~MessageStartsWith(response, <<"Invalid image format">>)
                   /\ Responded => (bodyReads = 1 /\ response # InvalidFormatResponse)
                   /\ (Responded /\ variant = "raw") => Len(calls) = 1

C10_Witness ==
    /\ Responded
    /\ IsPost
    /\ BodyReadable
    /\ SentImage = Str(<<"data:image/", "!", ";base64">>)
    /\ Truthy(SentPrompt)
    /\ response = InvalidFormatResponse


\* the downstream call ended with a JSON result: env.AI.run resolved, or the REST
\* API answered a success status with a JSON body
DownstreamSucceeded ==
    \/ outcome.kind = "returned"
    \/ outcome.kind = "responded" /\ Ok(outcome) /\ outcome.body.kind = "json"

\* the JSON the downstream returned
DownstreamJson ==
    IF outcome.kind = "returned" THEN outcome.value ELSE outcome.body.value

\* C11: when the downstream call of a valid POST succeeds, the response has status
\* 200 and its body is exactly the JSON the downstream returned: the same
\* properties with the same values, nothing added, removed or renamed.
C11_SuccessRelayedVerbatim ==
    (Responded /\ DownstreamSucceeded)
        => /\ response.status = 200
           /\ response.body = [kind |-> "json", value |-> DownstreamJson]
           /\ HasHeader(response, "Access-Control-Allow-Origin", "*")

C11_Witness ==
    /\ Responded
    /\ variant = "binding"
    /\ outcome.kind = "returned"
    /\ outcome.value = [t |-> "object", description |-> Str(<<>>), usage |-> Num(12)]
    /\ response.status = 200
    /\ response.body.value = outcome.value


\* the payload C12 names: everything that follows the first ";base64,"
C12_Payload(img) ==
    LET i == CHOOSE k \in 1..(Len(img) - 1) :
                 /\ SubSeq(img, k, k + 1) = Base64Marker
                 /\ \A j \in 1..(k - 1) : SubSeq(img, j, j + 1) # Base64Marker
    IN  SubSeq(img, i + 2, Len(img))

C12_Decodable(p) == \A i \in 1..Len(p) : p[i] \in Base64Tokens

\* C12: in the binding variant the image passed downstream is the decoding of the
\* whole payload after ";base64,", further commas in the MIME part or the payload
\* notwithstanding, and an undecodable payload is answered 400 "Failed to decode
\* base64 image data." without a downstream call; the raw-HTTPS variant forwards
\* the data URI string unchanged.
C12_PayloadDecodedOrRejected ==
    (IsPost /\ BodyReadable /\ SentImage.t = "string" /\ Truthy(SentPrompt)
       /\ C10_WellFormed(SentImage.v))
        => /\ (variant = "binding" /\ C12_Decodable(C12_Payload(SentImage.v)))
                => /\ \A i \in 1..Len(calls) :
                          calls[i].input.messages.v[1].image
                              = Arr(Atob(C12_Payload(SentImage.v)))
                   /\ response # DecodeFailedResponse
           /\ (variant = "binding" /\ ~C12_Decodable(C12_Payload(SentImage.v)))
                => /\ calls = <<>>
                   /\ Responded => response = DecodeFailedResponse
           /\ variant = "raw"
                => \A i \in 1..Len(calls) :
                       calls[i].input.messages.v[1].image = SentImage


\* every check that precedes the downstream call has passed for the request
C13_ChecksPassed ==
    /\ IsPost
    /\ bodyReads = 1
    /\ BodyReadable
    /\ Truthy(SentImage) /\ Truthy(SentPrompt)
    /\ SentImage.t = "string"
    /\ C10_WellFormed(SentImage.v)
    /\ variant = "binding" => ~AtobThrows(Base64Data(SentImage.v))

\* C13: within one request the downstream is invoked at most once (no retry after
\* a failure) and only after the method gate, the JSON parse, the presence, format
\* and (binding variant) decode checks have passed; once it has failed the handler
\* makes no further call and ends with one error response that carries a message
\* and no part of a result, after which it takes no further step.
C13_AtMostOneCallThenOneError ==
    /\ Len(calls) <= 1
    /\ calls # <<>> => C13_ChecksPassed
    /\ outcome # NoOutcome => Len(calls) = 1
    /\ DownstreamFailed
        => /\ pc \in {"awaitErrorJson", "done"}
           /\ ~Responded => ENABLED Next
           /\ Responded
                => /\ response.status >= 400
                   /\ IsJsonBody(response)
                   /\ Get(response.body.value, "message").t = "string"
                   /\ DOMAIN response.body.value \subseteq {"t", "message", "error"}
    /\ pc \in {"done", "threw"} => ~ENABLED Next

C13_Witness ==
    /\ Responded
    /\ Len(calls) = 1
    /\ outcome.kind = "threw"
    /\ response.status = 500


\* C15: a POST whose body parses as JSON (null, a number, an array, an object
\* whose image is a truthy non-string included) always ends in one of the
\* handler's responses - a 400 with {message}, a 200 or a downstream-failure
\* response - and never in an exception the handler does not catch.
C15_JsonPostNeverThrows ==
    (IsPost /\ request.body.kind = "json")
        => /\ pc # "threw"
           /\ Responded
                => /\ IsJsonBody(response)
                   /\ \/ response.status = 400
                            /\ Get(response.body.value, "message").t = "string"
                      \/ response.status = 200
                      \/ outcome # NoOutcome


\* What handling one request alone yields, as a function of the variant, the
\* request and the way its own downstream call ended: the response, or NoResponse
\* where the handler throws.
C14_Alone(v, req, out) ==
    IF req.method = "OPTIONS" THEN PreflightResponse
    ELSE IF req.method # "POST" THEN MethodNotAllowedResponse
    ELSE IF req.body.kind # "json" THEN InvalidJsonResponse
    ELSE IF req.body.value.t \in {"null", "undefined"} THEN NoResponse
    ELSE LET img == Get(req.body.value, "image")
             pr == Get(req.body.value, "prompt")
         IN  IF ~Truthy(img) \/ ~Truthy(pr) THEN MissingFieldsResponse
             ELSE IF img.t # "string" THEN NoResponse
             ELSE IF FormatInvalid(img.v) THEN InvalidFormatResponse
             ELSE IF v = "binding" /\ AtobThrows(Base64Data(img.v)) THEN DecodeFailedResponse
             ELSE IF out.kind = "returned" THEN JsonResponse(out.value, 200)
             ELSE IF out.kind = "threw" /\ v = "binding"
                  THEN AiModelErrorResponse(BindingErrorMessage(out.error), 500)
             ELSE IF out.kind = "threw" THEN InternalErrorResponse(out.error)
             ELSE IF out.kind # "responded" THEN NoResponse
             ELSE IF out.body.kind # "json" THEN InternalErrorResponse(JsonSyntaxError)
             ELSE IF Ok(out) THEN JsonResponse(out.body.value, 200)
             ELSE IF out.body.value.t \in {"null", "undefined"}
                  THEN InternalErrorResponse(PropertyTypeError)
             ELSE AiModelErrorResponse(ErrorDetails(out.body.value), out.status)

\* every invocation in flight: the running one and the suspended ones
C14_Frames == {CurrentFrame} \cup {suspended[k] : k \in 1..Len(suspended)}

\* C14: when requests are handled concurrently, interleaved at the awaits, each
\* finished invocation has returned exactly what handling its request alone
\* yields for its own method, body and downstream result, whatever the other
\* invocations did in between; an unfinished one has returned nothing.
C14_InterleavingIndependent ==
    \A f \in C14_Frames :
        /\ f.pc = "done" => f.response = C14_Alone(variant, f.request, f.outcome)
        /\ f.pc = "threw" => C14_Alone(variant, f.request, f.outcome) = NoResponse
        /\ f.pc # "done" => f.response = NoResponse

\* two raw-HTTPS invocations whose downstream answers differ have both been between
\* fetch and the reading of the body at once, and both have finished
C14_Witness ==
    /\ Len(suspended) >= 1
    /\ variant = "raw"
    /\ pc = "done"
    /\ suspended[1].pc = "done"
    /\ outcome.kind = "responded"
    /\ suspended[1].outcome.kind = "responded"
    /\ outcome.status = 401
    /\ suspended[1].outcome.status = 500
    /\ response.status = 401
    /\ suspended[1].response.status = 500
    /\ Len(calls) = 2

====
